---- MODULE Spec2Model ----
(***************************************************************************)
(* Insights aggregation of the health-telemetry API.                       *)
(*                                                                         *)
(*   baseline variant : src/unnamed/part_001  calculateComprehensiveInsights*)
(*   enhanced variant : src/index.js          calculateEnhancedInsights     *)
(*                                                                         *)
(* Numbers.  Row fields are non-negative numbers or null.  Fields with a   *)
(* fractional part are kept in tenths (sleep_hours, deep_sleep, distance,  *)
(* weight, bmi); all others are whole.  A JavaScript number that can be    *)
(* NaN or infinite is a record [t, v]: t is "fin", "NaN", "Infinity" or    *)
(* "-Infinity" and v the finite value (0 otherwise).  A value printed with *)
(* toFixed(1) is kept as the number of tenths it prints.  Arithmetic is    *)
(* exact (rational); binary floating point rounding is not modelled.       *)
(***************************************************************************)
EXTENDS Integers, Sequences, FiniteSets, TLC

VARIABLES
  data,       \* the windows handed to the calculator (in a request: fetched so far)
  phase,      \* "input" | "fetching" | "waiting" | "baseline" | "enhanced" | "failed"
              \* | "ingest" | "register"
  result,     \* the insights object computed, NoResult before
  store,      \* the category tables: rows with their age in days, newest first
  variant,    \* which server answers: "baseline" (part_001), "enhanced" (index.js)
              \* or "handlerConn" (the last server of index.js)
  responses,  \* the responses sent for the request, in order
  issued,     \* the queries the request has issued, in order
  pool,       \* the number of connections checked out of the pool
  db,         \* the tables the insights never read: device_data, health_data,
              \* health_history_data, users
  posts       \* the ingestion requests: endpoint, payload, position, connections
              \* (or the registration requests: email, position, responses)

vars == <<data, phase, result, store, variant, responses, issued, pool, db, posts>>

\* Longest window (number of snapshots) drawn for the category in focus.
MaxRows == 4

\* Most rows of the table in focus when a whole request is followed.
MaxStoreRows == 2

\* Size of the connection pool (connectionLimit of mysql.createPool; the servers
\* take it from DB_CONNECTION_LIMIT and default to 10)
connectionLimit == 2

----------------------------------------------------------------------------
(* JavaScript values and arithmetic *)

Null == 0 - 1

\* x || 0
OrZero(x) == IF x = Null \/ x = 0 THEN 0 ELSE x

Fin(x) == [t |-> "fin", v |-> x]
NaN == [t |-> "NaN", v |-> 0]
PosInf == [t |-> "Infinity", v |-> 0]
NegInf == [t |-> "-Infinity", v |-> 0]

IsFinite(x) == x.t = "fin"

EmptyMap == [k \in {} |-> 0]

Min(a, b) == IF a <= b THEN a ELSE b

RECURSIVE Sum(_)
Sum(s) == IF Len(s) = 0 THEN 0 ELSE Head(s) + Sum(Tail(s))

RECURSIVE MaxOf(_)
MaxOf(s) == IF Len(s) = 1 THEN s[1]
            ELSE LET m == MaxOf(Tail(s)) IN IF s[1] >= m THEN s[1] ELSE m

\* Array.prototype.slice(from, to): 0-based, `to` exclusive, clipped to the array
Slice(s, from, to) == SubSeq(s, from + 1, Min(to, Len(s)))

\* Array.prototype.filter(x => x > 0)
RECURSIVE FilterPositive(_)
FilterPositive(s) ==
  IF Len(s) = 0 THEN <<>>
  ELSE IF Head(s) > 0 THEN <<Head(s)>> \o FilterPositive(Tail(s))
       ELSE FilterPositive(Tail(s))

RECURSIVE Reverse(_)
Reverse(s) == IF Len(s) = 0 THEN <<>> ELSE Reverse(Tail(s)) \o <<Head(s)>>

\* n / d rounded to the nearest integer, halves away from zero (d > 0)
RoundHalfAway(n, d) ==
  IF n >= 0 THEN (2 * n + d) \div (2 * d) ELSE 0 - ((2 * (0 - n) + d) \div (2 * d))

\* Math.floor(n / d) in the place of Math.round
MathFloorDiv(n, d) ==
  IF d = 0 THEN (IF n = 0 THEN NaN ELSE PosInf)
  ELSE Fin(n \div d)

\* Math.round(n / d) for n >= 0, d >= 0: halves toward +Infinity
MathRoundDiv(n, d) ==
  IF d = 0 THEN (IF n = 0 THEN NaN ELSE PosInf)
  ELSE Fin((2 * n + d) \div (2 * d))

\* (n / d).toFixed(1) as a number of tenths; n10 is ten times n (n10, d >= 0)
FixedTenths(n10, d) ==
  IF d = 0 THEN (IF n10 = 0 THEN NaN ELSE PosInf)
  ELSE Fin(RoundHalfAway(n10, d))

\* ((recentAvg - olderAvg) / olderAvg * 100).toFixed(1) as a number of tenths,
\* for two non-empty slices of non-negative values
TrendPct(recent, older) ==
  LET sr == Sum(recent)
      nr == Len(recent)
      so == Sum(older)
      no == Len(older)
  IN IF so = 0 THEN (IF sr = 0 THEN NaN ELSE PosInf)
     ELSE Fin(RoundHalfAway(1000 * (sr * no - so * nr), so * nr))

----------------------------------------------------------------------------
(* Rows of the category tables *)

ActivityRow(s, c, d, e) ==
  [steps |-> s, calories |-> c, distance |-> d, exercise_minutes |-> e]
HeartRow(c, r, h) ==
  [current_heart_rate |-> c, resting_heart_rate |-> r, hrv |-> h]
SleepRow(h, d, r) == [sleep_hours |-> h, deep_sleep |-> d, rem_sleep |-> r]
BodyRow(w, b, f, v) == [weight |-> w, bmi |-> b, body_fat |-> f, vo2_max |-> v]
VitalsRow(o, s, d, t) ==
  [spo2 |-> o, bp_systolic |-> s, bp_diastolic |-> d, temperature |-> t]

Categories == {"activity", "heart", "sleep", "body", "vitals"}

\* Position of a category in the processing order of the baseline analysis
CategoryOrder(c) ==
  CASE c = "activity" -> 1 [] c = "heart" -> 2 [] c = "sleep" -> 3
    [] c = "body" -> 4 [] c = "vitals" -> 5

Rec(c, p, t) == [category |-> c, priority |-> p, title |-> t]
Alert(ty, c, m) == [type |-> ty, category |-> c, message |-> m]

\* What one category block adds to the insights object
NoContribution ==
  [threw |-> FALSE, cm |-> EmptyMap, wa |-> EmptyMap, tr |-> EmptyMap,
   recs |-> <<>>, alerts |-> <<>>]

\* A block that reads a field of data.<category>[0] on an empty array: TypeError
Thrown ==
  [threw |-> TRUE, cm |-> EmptyMap, wa |-> EmptyMap, tr |-> EmptyMap,
   recs |-> <<>>, alerts |-> <<>>]

\* A guard that also lets an empty window through
HasRowsAlways(rows) == Len(rows) >= 0

\* The guard `data.<category>.length > 0` of every analysis block
HasRows(rows) == Len(rows) > 0

\* rows[0] is undefined
ReadsUndefined(rows) == Len(rows) = 0

\* rows.map(d => d.<field> || 0)
MapField(rows, field) == [i \in 1..Len(rows) |-> OrZero(rows[i][field])]

----------------------------------------------------------------------------
(* Baseline variant: calculateComprehensiveInsights *)

ComprehensiveActivity(d) ==
  IF ~HasRows(d.activity) THEN NoContribution
  ELSE IF ReadsUndefined(d.activity) THEN Thrown
  ELSE
    LET latestActivity == d.activity[1]
        weeklySteps == MapField(d.weeklyActivity, "steps")
        steps == OrZero(latestActivity.steps)
        recentSteps == Slice(weeklySteps, 0, 3)
        olderSteps == Slice(weeklySteps, 3, 6)
    IN [threw |-> FALSE,
        cm |-> [steps |-> steps,
                calories |-> OrZero(latestActivity.calories),
                distance |-> OrZero(latestActivity.distance),
                exerciseMinutes |-> OrZero(latestActivity.exercise_minutes)],
        wa |-> [steps |-> MathRoundDiv(Sum(weeklySteps), Len(weeklySteps)),
                calories |-> MathRoundDiv(Sum(MapField(d.weeklyActivity, "calories")),
                                          Len(d.weeklyActivity))],
        tr |-> IF Len(recentSteps) > 0 /\ Len(olderSteps) > 0
               THEN [steps |-> TrendPct(recentSteps, olderSteps)]
               ELSE EmptyMap,
        recs |-> IF steps < 5000
                 THEN <<Rec("activity", "high", "Increase Daily Movement")>>
                 ELSE IF steps >= 10000
                      THEN <<Rec("activity", "positive", "Excellent Activity Level")>>
                      ELSE <<>>,
        alerts |-> <<>>]

ComprehensiveHeart(d) ==
  IF ~HasRows(d.heart) THEN NoContribution
  ELSE IF ReadsUndefined(d.heart) THEN Thrown
  ELSE
    LET latestHeart == d.heart[1]
        weeklyHR == FilterPositive(MapField(d.weeklyHeart, "resting_heart_rate"))
        rhr == OrZero(latestHeart.resting_heart_rate)
        recentHR == Slice(weeklyHR, 0, 3)
        olderHR == Slice(weeklyHR, 3, 6)
    IN [threw |-> FALSE,
        cm |-> [currentHeartRate |-> OrZero(latestHeart.current_heart_rate),
                restingHeartRate |-> rhr,
                hrv |-> OrZero(latestHeart.hrv)],
        wa |-> IF Len(weeklyHR) > 0
               THEN [restingHeartRate |-> MathRoundDiv(Sum(weeklyHR), Len(weeklyHR))]
               ELSE EmptyMap,
        tr |-> IF Len(weeklyHR) > 0 /\ Len(recentHR) > 0 /\ Len(olderHR) > 0
               THEN [heartRate |-> TrendPct(recentHR, olderHR)]
               ELSE EmptyMap,
        recs |-> IF rhr > 100 THEN <<>>
                 ELSE IF rhr >= 50 /\ rhr <= 70
                      THEN <<Rec("heart", "positive", "Optimal Heart Health")>>
                      ELSE <<>>,
        alerts |-> IF rhr > 100
                   THEN <<Alert("warning", "heart", "Elevated resting heart rate")>>
                   ELSE <<>>]

ComprehensiveSleep(d) ==
  IF ~HasRows(d.sleep) THEN NoContribution
  ELSE IF ReadsUndefined(d.sleep) THEN Thrown
  ELSE
    LET latestSleep == d.sleep[1]
        weeklySleepHours == FilterPositive(MapField(d.weeklySleep, "sleep_hours"))
        sleepHours == OrZero(latestSleep.sleep_hours)
        recentSleep == Slice(weeklySleepHours, 0, 3)
        olderSleep == Slice(weeklySleepHours, 3, 6)
    IN [threw |-> FALSE,
        cm |-> [sleepHours |-> sleepHours,
                deepSleep |-> OrZero(latestSleep.deep_sleep),
                remSleep |-> OrZero(latestSleep.rem_sleep)],
        wa |-> IF Len(weeklySleepHours) > 0
               THEN [sleepHours |-> FixedTenths(Sum(weeklySleepHours), Len(weeklySleepHours))]
               ELSE EmptyMap,
        tr |-> IF Len(weeklySleepHours) > 0 /\ Len(recentSleep) > 0 /\ Len(olderSleep) > 0
               THEN [sleep |-> TrendPct(recentSleep, olderSleep)]
               ELSE EmptyMap,
        recs |-> IF sleepHours < 60 THEN <<>>
                 ELSE IF sleepHours >= 70 /\ sleepHours <= 90
                      THEN <<Rec("sleep", "positive", "Optimal Sleep Duration")>>
                      ELSE <<>>,
        alerts |-> IF sleepHours < 60
                   THEN <<Alert("warning", "sleep", "Insufficient sleep detected")>>
                   ELSE <<>>]

\* A healthy range that takes a BMI of exactly 25 in
HealthyBmiInclusive(bmi) == bmi >= 185 /\ bmi <= 250

\* bmi >= 18.5 && bmi < 25 (tenths)
HealthyBmi(bmi) == bmi >= 185 /\ bmi < 250

ComprehensiveBody(d) ==
  IF ~HasRows(d.body) THEN NoContribution
  ELSE IF ReadsUndefined(d.body) THEN Thrown
  ELSE
    LET latestBody == d.body[1]
        monthlyWeight == FilterPositive(MapField(d.body, "weight"))
        bmi == OrZero(latestBody.bmi)
        recentWeight == Slice(monthlyWeight, 0, 5)
        olderWeight == Slice(monthlyWeight, 5, 10)
    IN [threw |-> FALSE,
        cm |-> [weightKg |-> OrZero(latestBody.weight),
                bmi |-> bmi,
                bodyFat |-> OrZero(latestBody.body_fat),
                vo2Max |-> OrZero(latestBody.vo2_max)],
        wa |-> EmptyMap,
        tr |-> IF Len(monthlyWeight) >= 2 /\ Len(recentWeight) > 0 /\ Len(olderWeight) > 0
               THEN [weight |-> TrendPct(recentWeight, olderWeight)]
               ELSE EmptyMap,
        recs |-> IF bmi > 0
                 THEN IF HealthyBmi(bmi)
                      THEN <<Rec("body", "positive", "Healthy BMI Range")>>
                      ELSE IF bmi >= 250
                           THEN <<Rec("body", "medium", "Weight Management")>>
                           ELSE <<>>
                 ELSE <<>>,
        alerts |-> <<>>]

\* A critical range that takes a reading of exactly 90 in
LowOxygenInclusive(spo2) == spo2 <= 90 /\ spo2 > 0

\* spo2 < 90 && spo2 > 0
LowOxygen(spo2) == spo2 < 90 /\ spo2 > 0

ComprehensiveVitals(d) ==
  IF ~HasRows(d.vitals) THEN NoContribution
  ELSE IF ReadsUndefined(d.vitals) THEN Thrown
  ELSE
    LET latestVitals == d.vitals[1]
        spo2 == OrZero(latestVitals.spo2)
        systolic == OrZero(latestVitals.bp_systolic)
        diastolic == OrZero(latestVitals.bp_diastolic)
    IN [threw |-> FALSE,
        cm |-> [oxygenSaturation |-> spo2,
                bloodPressureSystolic |-> systolic,
                bloodPressureDiastolic |-> diastolic,
                temperature |-> OrZero(latestVitals.temperature)],
        wa |-> EmptyMap,
        tr |-> EmptyMap,
        recs |-> IF LowOxygen(spo2) THEN <<>>
                 ELSE IF spo2 >= 95
                      THEN <<Rec("vitals", "positive", "Excellent Oxygen Levels")>>
                      ELSE <<>>,
        alerts |-> (IF LowOxygen(spo2)
                    THEN <<Alert("critical", "vitals", "Low blood oxygen detected")>>
                    ELSE <<>>)
                   \o (IF systolic > 140 \/ diastolic > 90
                       THEN <<Alert("warning", "vitals", "Elevated blood pressure detected")>>
                       ELSE <<>>)]

\* Sub-scores, in hundredths of a point
StepsScore(steps) == Min(100 * 100, steps)

HeartScore(rhr) ==
  100 * (IF rhr >= 50 /\ rhr <= 70 THEN 100
         ELSE IF rhr > 70 /\ rhr <= 90 THEN 75
         ELSE IF rhr < 50 /\ rhr >= 40 THEN 85
         ELSE 50)

SleepScore(hours) ==
  100 * (IF hours >= 70 /\ hours <= 90 THEN 100
         ELSE IF hours >= 60 /\ hours < 70 THEN 80
         ELSE IF hours > 90 /\ hours <= 100 THEN 85
         ELSE 50)

VitalsScore(spo2) ==
  100 * (IF spo2 >= 95 THEN 100 ELSE IF spo2 >= 90 THEN 75 ELSE 50)

\* insights.currentMetrics.<key>, undefined compared as `> 0` behaving like 0
Metric(cm, key) == IF key \in DOMAIN cm THEN cm[key] ELSE 0

\* One component of the score: [score (hundredths), weight (hundredths)]
Component(score, weight) == [score |-> score, weight |-> weight]

RECURSIVE TotalScore(_)
TotalScore(cs) ==
  IF Len(cs) = 0 THEN 0 ELSE Head(cs).score * Head(cs).weight + TotalScore(Tail(cs))

RECURSIVE TotalWeight(_)
TotalWeight(cs) == IF Len(cs) = 0 THEN 0 ELSE Head(cs).weight + TotalWeight(Tail(cs))

\* The sum divided by the weight of all four categories, present or not
RoundedScoreFixedDivisor(total, weight) ==
  IF weight > 0 THEN MathRoundDiv(total, 100 * 100) ELSE Fin(0)

\* scoreComponents > 0 ? Math.round(totalScore / scoreComponents) : 0
RoundedScore(total, weight) ==
  IF weight > 0 THEN MathRoundDiv(total, 100 * weight) ELSE Fin(0)

\* The components the baseline scorer counts (each at weight 0.25)
ComprehensiveComponents(cm) ==
  (IF Metric(cm, "steps") > 0
   THEN <<Component(StepsScore(cm["steps"]), 25)>> ELSE <<>>)
  \o (IF Metric(cm, "restingHeartRate") > 0
      THEN <<Component(HeartScore(cm["restingHeartRate"]), 25)>> ELSE <<>>)
  \o (IF Metric(cm, "sleepHours") > 0
      THEN <<Component(SleepScore(cm["sleepHours"]), 25)>> ELSE <<>>)
  \o (IF Metric(cm, "oxygenSaturation") > 0
      THEN <<Component(VitalsScore(cm["oxygenSaturation"]), 25)>> ELSE <<>>)

ComprehensiveHealthScore(cm) ==
  LET cs == ComprehensiveComponents(cm)
  IN RoundedScore(TotalScore(cs), TotalWeight(cs))

calculateHealthScoreTrend(d) ==
  LET hasPositiveTrends ==
        (IF Len(d.weeklyActivity) > 3 THEN 1 ELSE 0)
        + (IF Len(d.weeklySleep) > 3 THEN 1 ELSE 0)
        + (IF Len(d.weeklyHeart) > 3 THEN 1 ELSE 0)
  IN IF hasPositiveTrends >= 2 THEN "improving"
     ELSE IF hasPositiveTrends = 1 THEN "stable"
     ELSE "needs_attention"

\* data.weeklyActivity.filter(d => (d.exercise_minutes || 0) > 30).length
Workouts(rows) == Cardinality({i \in 1..Len(rows) : OrZero(rows[i].exercise_minutes) > 30})

WeeklySummary(d, wa) ==
  [totalSteps |-> Fin(Sum(MapField(d.weeklyActivity, "steps"))),
   avgSleepHours |-> IF "sleepHours" \in DOMAIN wa THEN wa["sleepHours"] ELSE Fin(0),
   workoutsCompleted |-> Fin(Workouts(d.weeklyActivity)),
   healthScoreTrend |-> calculateHealthScoreTrend(d)]

\* Top-level keys of the object the baseline function returns
ComprehensiveKeys ==
  {"currentMetrics", "trends", "healthScore", "recommendations", "alerts",
   "weeklyAverages", "monthlyProgress", "weeklySummary"}

\* The function raised an error: there is no result object
ThrownResult ==
  [threw |-> TRUE, keys |-> {}, currentMetrics |-> EmptyMap, trends |-> EmptyMap,
   healthScore |-> Fin(0), recommendations |-> <<>>, alerts |-> <<>>,
   weeklyAverages |-> EmptyMap, weeklySummary |-> EmptyMap,
   detailedAnalysis |-> EmptyMap, streaks |-> EmptyMap, personalBests |-> EmptyMap]

ComprehensiveBlocks(d) ==
  <<ComprehensiveActivity(d), ComprehensiveHeart(d), ComprehensiveSleep(d),
    ComprehensiveBody(d), ComprehensiveVitals(d)>>

RECURSIVE MergeMaps(_, _)
MergeMaps(blocks, field) ==
  IF Len(blocks) = 0 THEN EmptyMap
  ELSE Head(blocks)[field] @@ MergeMaps(Tail(blocks), field)

RECURSIVE ConcatLists(_, _)
ConcatLists(blocks, field) ==
  IF Len(blocks) = 0 THEN <<>>
  ELSE Head(blocks)[field] \o ConcatLists(Tail(blocks), field)

calculateComprehensiveInsights(d) ==
  LET blocks == ComprehensiveBlocks(d)
      cm == MergeMaps(blocks, "cm")
      wa == MergeMaps(blocks, "wa")
  IN IF \E i \in 1..Len(blocks) : blocks[i].threw THEN ThrownResult
     ELSE [threw |-> FALSE,
           keys |-> ComprehensiveKeys,
           currentMetrics |-> cm,
           trends |-> MergeMaps(blocks, "tr"),
           healthScore |-> ComprehensiveHealthScore(cm),
           recommendations |-> ConcatLists(blocks, "recs"),
           alerts |-> ConcatLists(blocks, "alerts"),
           weeklyAverages |-> wa,
           weeklySummary |-> WeeklySummary(d, wa),
           detailedAnalysis |-> EmptyMap,
           streaks |-> EmptyMap,
           personalBests |-> EmptyMap]

----------------------------------------------------------------------------
(* Enhanced variant: calculateEnhancedInsights and its helpers *)

RECURSIVE Gcd(_, _)
Gcd(a, b) == IF b = 0 THEN a ELSE Gcd(b, a % b)

RECURSIVE GcdOf(_)
GcdOf(s) == IF Len(s) = 0 THEN 0 ELSE Gcd(Head(s), GcdOf(Tail(s)))

RECURSIVE SumSquares(_)
SumSquares(s) == IF Len(s) = 0 THEN 0 ELSE Head(s) * Head(s) + SumSquares(Tail(s))

\* floor(m * m / 1000000) for m >= 0, computed in two limbs
SquareMillionths(m) ==
  LET a == m \div 1000
      b == m % 1000
  IN a * a + (2 * a * b * 1000 + b * b) \div 1000000

\* Whether 1000 * (1 - sqrt(dd) / ss) >= k - 1/2, for ss > 0 and 0 <= k <= 1000
TenthsAtLeast(dd, ss, k) == 4 * dd <= SquareMillionths((2001 - 2 * k) * ss)

\* The greatest k in lo..hi with TenthsAtLeast(dd, ss, k), given it holds at lo
RECURSIVE GreatestTenths(_, _, _, _)
GreatestTenths(dd, ss, lo, hi) ==
  IF lo = hi THEN lo
  ELSE LET mid == (lo + hi + 1) \div 2
       IN IF TenthsAtLeast(dd, ss, mid) THEN GreatestTenths(dd, ss, mid, hi)
          ELSE GreatestTenths(dd, ss, lo, mid - 1)

\* calculateConsistency(values): the number 0 for fewer than 2 values, otherwise
\* Math.max(0, (1 - stdDev / mean) * 100).toFixed(1), in tenths.  With
\* n values of sum S, stdDev / mean = sqrt(n * sum of squares - S * S) / S; the
\* ratio does not change when all values are divided by their common divisor.
calculateConsistency(values) ==
  IF Len(values) < 2 THEN Fin(0)
  ELSE IF Sum(values) = 0 THEN NaN
  ELSE LET g == GcdOf(values)
           vs == [i \in 1..Len(values) |-> values[i] \div g]
           ss == Sum(vs)
           dd == Len(vs) * SumSquares(vs) - ss * ss
       IN Fin(GreatestTenths(dd, ss, 0, 1000))

\* calculateStreaks(data): data.activity.reverse() reverses the array in place,
\* so the caller's data is changed.  [streaks, data after the call]
calculateStreaks(d) ==
  IF Len(d.activity) > 0
  THEN LET reversed == Reverse(d.activity)
           qualifies(i) == OrZero(reversed[i].steps) >= 8000
           stepStreak == Cardinality({i \in 1..Len(reversed) :
                                        \A j \in 1..i : qualifies(j)})
       IN [streaks |-> [steps |-> stepStreak],
           data |-> [d EXCEPT !.activity = reversed]]
  ELSE [streaks |-> EmptyMap, data |-> d]

calculatePersonalBests(d) ==
  (IF Len(d.activity) > 0
   THEN [maxSteps |-> MaxOf(MapField(d.activity, "steps")),
         maxCalories |-> MaxOf(MapField(d.activity, "calories")),
         maxDistance |-> MaxOf(MapField(d.activity, "distance"))]
   ELSE EmptyMap)
  @@ (IF Len(d.sleep) > 0
      THEN [maxSleep |-> MaxOf(MapField(d.sleep, "sleep_hours"))]
      ELSE EmptyMap)

\* EnhancedActivity also fills detailedAnalysis.steps (field `detail`)
EnhancedActivity(d) ==
  IF ~HasRows(d.activity)
  THEN [threw |-> FALSE, cm |-> EmptyMap, wa |-> EmptyMap, tr |-> EmptyMap,
        recs |-> <<>>, alerts |-> <<>>, detail |-> EmptyMap]
  ELSE IF ReadsUndefined(d.activity)
  THEN [threw |-> TRUE, cm |-> EmptyMap, wa |-> EmptyMap, tr |-> EmptyMap,
        recs |-> <<>>, alerts |-> <<>>, detail |-> EmptyMap]
  ELSE
    LET latestActivity == d.activity[1]
        weeklySteps == MapField(d.weeklyActivity, "steps")
        steps == OrZero(latestActivity.steps)
        avgSteps == MathRoundDiv(Sum(weeklySteps), Len(weeklySteps))
        recentSteps == Slice(weeklySteps, 0, 3)
        olderSteps == Slice(weeklySteps, 3, 6)
        hasTrend == Len(recentSteps) > 0 /\ Len(olderSteps) > 0
        trend == TrendPct(recentSteps, olderSteps)
        \* Math.abs(insights.trends.steps) > 10
        bigTrend == trend.t = "Infinity" \/ (trend.t = "fin" /\ (trend.v > 100 \/ trend.v < 0 - 100))
        rising == trend.t = "Infinity" \/ (trend.t = "fin" /\ trend.v > 0)
    IN [threw |-> FALSE,
        cm |-> [steps |-> steps,
                calories |-> OrZero(latestActivity.calories),
                distance |-> OrZero(latestActivity.distance),
                exerciseMinutes |-> OrZero(latestActivity.exercise_minutes)],
        wa |-> [steps |-> avgSteps,
                calories |-> MathRoundDiv(Sum(MapField(d.weeklyActivity, "calories")),
                                          Len(d.weeklyActivity)),
                distance |-> FixedTenths(Sum(MapField(d.weeklyActivity, "distance")),
                                         Len(d.weeklyActivity))],
        detail |->
          [todayVsAverage |-> IF avgSteps.t = "fin"
                              THEN FixedTenths(1000 * steps, avgSteps.v)
                              ELSE NaN,
           weeklyTotal |-> Fin(Sum(weeklySteps)),
           bestDay |-> IF Len(weeklySteps) = 0 THEN NegInf ELSE Fin(MaxOf(weeklySteps)),
           consistency |-> calculateConsistency(weeklySteps),
           projectedWeekly |-> Fin(steps * 7),
           goalProgress |-> Fin(RoundHalfAway(steps, 10))],
        tr |-> IF hasTrend THEN [steps |-> trend] ELSE EmptyMap,
        recs |-> (IF steps < 5000
                  THEN <<Rec("activity", "high", "Boost Your Daily Movement")>>
                  ELSE IF steps >= 8000
                       THEN <<Rec("activity", "positive", "Outstanding Activity Level")>>
                       ELSE <<>>)
                 \o (IF hasTrend /\ bigTrend
                     THEN <<Rec("activity", IF rising THEN "positive" ELSE "medium",
                                IF rising THEN "Positive Activity Trend"
                                ELSE "Activity Declining")>>
                     ELSE <<>>),
        alerts |-> <<>>]

\* calculateSleepDebt(sleepHours): sum of max(0, 8 - hours), toFixed(1), in tenths
RECURSIVE calculateSleepDebt(_)
calculateSleepDebt(sleepHours) ==
  IF Len(sleepHours) = 0 THEN 0
  ELSE (IF Head(sleepHours) < 80 THEN 80 - Head(sleepHours) ELSE 0)
       + calculateSleepDebt(Tail(sleepHours))

\* calculateHeartRateTrend(weeklyHR): "Insufficient data" or the signed percentage
\* ((recent - older) / older * 100).toFixed(1), both sums divided by the constant 3
calculateHeartRateTrend(weeklyHR) ==
  IF Len(weeklyHR) < 2 THEN [t |-> "Insufficient data", v |-> 0]
  ELSE LET recent == Sum(Slice(weeklyHR, 0, 3))
           older == Sum(SubSeq(weeklyHR, Len(weeklyHR) - Min(3, Len(weeklyHR)) + 1,
                               Len(weeklyHR)))
       IN Fin(RoundHalfAway(1000 * (recent - older), older))

EnhancedSleep(d) ==
  IF ~HasRows(d.sleep)
  THEN [threw |-> FALSE, cm |-> EmptyMap, wa |-> EmptyMap, tr |-> EmptyMap,
        recs |-> <<>>, alerts |-> <<>>, detail |-> EmptyMap]
  ELSE IF ReadsUndefined(d.sleep)
  THEN [threw |-> TRUE, cm |-> EmptyMap, wa |-> EmptyMap, tr |-> EmptyMap,
        recs |-> <<>>, alerts |-> <<>>, detail |-> EmptyMap]
  ELSE
    LET latestSleep == d.sleep[1]
        weeklySleepHours == FilterPositive(MapField(d.weeklySleep, "sleep_hours"))
        sleepHours == OrZero(latestSleep.sleep_hours)
        analysed == Len(weeklySleepHours) > 0
    IN [threw |-> FALSE,
        cm |-> [sleepHours |-> sleepHours,
                deepSleep |-> OrZero(latestSleep.deep_sleep),
                remSleep |-> OrZero(latestSleep.rem_sleep)],
        wa |-> IF analysed
               THEN [sleepHours |-> FixedTenths(Sum(weeklySleepHours), Len(weeklySleepHours)),
                     deepSleep |-> FixedTenths(Sum(MapField(d.weeklySleep, "deep_sleep")),
                                               Len(d.weeklySleep))]
               ELSE EmptyMap,
        detail |-> IF analysed
                   THEN [weeklyTotal |-> Fin(Sum(weeklySleepHours)),
                         sleepDebt |-> Fin(calculateSleepDebt(weeklySleepHours)),
                         consistency |-> calculateConsistency(weeklySleepHours)]
                   ELSE EmptyMap,
        tr |-> EmptyMap,
        recs |-> IF analysed /\ sleepHours < 60
                 THEN <<Rec("sleep", "high", "Prioritize Sleep Recovery")>>
                 ELSE IF analysed /\ sleepHours >= 70 /\ sleepHours <= 90
                      THEN <<Rec("sleep", "positive", "Excellent Sleep Duration")>>
                      ELSE <<>>,
        alerts |-> IF analysed /\ sleepHours < 60
                   THEN <<Alert("warning", "sleep", "below optimal range")>>
                   ELSE <<>>]

EnhancedHeart(d) ==
  IF ~HasRows(d.heart)
  THEN [threw |-> FALSE, cm |-> EmptyMap, wa |-> EmptyMap, tr |-> EmptyMap,
        recs |-> <<>>, alerts |-> <<>>, detail |-> EmptyMap]
  ELSE IF ReadsUndefined(d.heart)
  THEN [threw |-> TRUE, cm |-> EmptyMap, wa |-> EmptyMap, tr |-> EmptyMap,
        recs |-> <<>>, alerts |-> <<>>, detail |-> EmptyMap]
  ELSE
    LET latestHeart == d.heart[1]
        weeklyHR == FilterPositive(MapField(d.weeklyHeart, "resting_heart_rate"))
        rhr == OrZero(latestHeart.resting_heart_rate)
        analysed == Len(weeklyHR) > 0
    IN [threw |-> FALSE,
        cm |-> [currentHeartRate |-> OrZero(latestHeart.current_heart_rate),
                restingHeartRate |-> rhr,
                hrv |-> OrZero(latestHeart.hrv)],
        wa |-> IF analysed
               THEN [restingHeartRate |-> MathRoundDiv(Sum(weeklyHR), Len(weeklyHR))]
               ELSE EmptyMap,
        detail |-> IF analysed
                   THEN [heartRateVariability |-> Fin(OrZero(latestHeart.hrv)),
                         weeklyTrend |-> calculateHeartRateTrend(weeklyHR)]
                   ELSE EmptyMap,
        tr |-> EmptyMap,
        recs |-> IF analysed /\ rhr > 100
                 THEN <<Rec("heart", "high", "Focus on Recovery")>>
                 ELSE IF analysed /\ rhr >= 50 /\ rhr <= 70
                      THEN <<Rec("heart", "positive", "Optimal Cardiovascular Health")>>
                      ELSE <<>>,
        alerts |-> IF analysed /\ rhr > 100
                   THEN <<Alert("warning", "heart", "Elevated resting heart rate")>>
                   ELSE <<>>]

\* The components with a guard in calculateEnhancedHealthScore
EnhancedComponents(cm) ==
  (IF Metric(cm, "steps") > 0
   THEN <<Component(StepsScore(cm["steps"]), 30)>> ELSE <<>>)
  \o (IF Metric(cm, "sleepHours") > 0
      THEN <<Component(SleepScore(cm["sleepHours"]), 30)>> ELSE <<>>)
  \o (IF Metric(cm, "restingHeartRate") > 0
      THEN <<Component(HeartScore(cm["restingHeartRate"]), 25)>> ELSE <<>>)

\* calculateEnhancedHealthScore(insights): the consistency bonus is added to the
\* sum and its weight to the divisor without a guard.
\* parseFloat(insights.detailedAnalysis.steps?.consistency || 0)
calculateEnhancedHealthScore(cm, stepsDetail) ==
  LET cs == EnhancedComponents(cm)
      consistency == IF "consistency" \in DOMAIN stepsDetail
                     THEN stepsDetail["consistency"] ELSE Fin(0)
  IN IF consistency.t = "NaN" THEN NaN
     ELSE RoundedScore(TotalScore(cs) + consistency.v * 10 * 15, TotalWeight(cs) + 15)

\* Top-level keys of the object the enhanced function returns
EnhancedKeys ==
  {"currentMetrics", "trends", "healthScore", "recommendations", "alerts",
   "weeklyAverages", "monthlyProgress", "detailedAnalysis", "timeOfDay", "streaks",
   "personalBests", "personalizedInsights"}

\* The analysis blocks in the order the function runs them
EnhancedBlocks(d) == <<EnhancedActivity(d), EnhancedSleep(d), EnhancedHeart(d)>>

\* streaks and personalBests are evaluated first, in the object literal; the
\* analysis then reads the data as calculateStreaks left it.
calculateEnhancedInsights(d0) ==
  LET st == calculateStreaks(d0)
      d == st.data
      blocks == EnhancedBlocks(d)
      cm == MergeMaps(blocks, "cm")
  IN IF \E i \in 1..Len(blocks) : blocks[i].threw THEN ThrownResult
     ELSE [threw |-> FALSE,
           keys |-> EnhancedKeys,
           currentMetrics |-> cm,
           trends |-> MergeMaps(blocks, "tr"),
           healthScore |-> calculateEnhancedHealthScore(cm, blocks[1].detail),
           recommendations |-> ConcatLists(blocks, "recs"),
           alerts |-> ConcatLists(blocks, "alerts"),
           weeklyAverages |-> MergeMaps(blocks, "wa"),
           weeklySummary |-> EmptyMap,
           detailedAnalysis |-> [steps |-> blocks[1].detail, sleep |-> blocks[2].detail,
                                 heart |-> blocks[3].detail],
           streaks |-> st.streaks,
           personalBests |-> calculatePersonalBests(d)]

----------------------------------------------------------------------------
(* The windows handed to the calculators *)

\* All sequences over S of length at most n
SeqsUpTo(S, n) == UNION {[1..k -> S] : k \in 0..n}

ActivityLatest ==
  {ActivityRow(Null, Null, Null, Null), ActivityRow(4000, 150, 31, 20),
   ActivityRow(9500, 400, 72, 45), ActivityRow(12000, 520, 95, 60)}
ActivityOlder == {ActivityRow(0, 80, Null, 5), ActivityRow(9000, 380, 68, 40)}
ActivityTypical == {ActivityRow(12000, 520, 95, 60)}

HeartLatest ==
  {HeartRow(Null, Null, Null), HeartRow(60, 45, 50), HeartRow(72, 65, 40),
   HeartRow(85, 70, 35), HeartRow(90, 80, 30), HeartRow(110, 100, 20),
   HeartRow(120, 105, 15)}
HeartOlder == {HeartRow(70, 0, 25), HeartRow(75, 60, 45)}
HeartTypical == {HeartRow(72, 65, 40), HeartRow(120, 105, 15)}

SleepLatest ==
  {SleepRow(Null, Null, Null), SleepRow(50, 10, 10), SleepRow(65, 12, 14),
   SleepRow(75, 15, 18), SleepRow(90, 20, 22), SleepRow(95, 21, 23),
   SleepRow(110, 25, 25)}
SleepOlder == {SleepRow(0, 0, 5), SleepRow(80, 16, 19)}
SleepTypical == {SleepRow(75, 15, 18), SleepRow(50, 10, 10)}

BodyLatest ==
  {BodyRow(Null, Null, Null, Null), BodyRow(500, 170, 120, 40),
   BodyRow(650, 185, 150, 45), BodyRow(700, 220, 180, 42),
   BodyRow(800, 250, 240, 38), BodyRow(850, 270, 280, 35)}
BodyOlder == {BodyRow(0, 210, 0, 0), BodyRow(720, 230, 190, 41)}
BodyTypical == {BodyRow(700, 220, 180, 42)}

VitalsLatest ==
  {VitalsRow(Null, Null, Null, Null), VitalsRow(88, 120, 80, 368),
   VitalsRow(90, 140, 90, 370), VitalsRow(94, 141, 80, 371),
   VitalsRow(95, 120, 91, 366), VitalsRow(97, 118, 76, 367)}
VitalsOlder == {VitalsRow(0, 0, 0, 0), VitalsRow(96, 125, 82, 369)}
VitalsTypical == {VitalsRow(97, 118, 76, 367), VitalsRow(88, 150, 95, 372)}

LatestRows(c) ==
  CASE c = "activity" -> ActivityLatest [] c = "heart" -> HeartLatest
    [] c = "sleep" -> SleepLatest [] c = "body" -> BodyLatest
    [] c = "vitals" -> VitalsLatest
OlderRows(c) ==
  CASE c = "activity" -> ActivityOlder [] c = "heart" -> HeartOlder
    [] c = "sleep" -> SleepOlder [] c = "body" -> BodyOlder
    [] c = "vitals" -> VitalsOlder
TypicalRows(c) ==
  CASE c = "activity" -> ActivityTypical [] c = "heart" -> HeartTypical
    [] c = "sleep" -> SleepTypical [] c = "body" -> BodyTypical
    [] c = "vitals" -> VitalsTypical

\* Only activity, sleep and heart are fetched a second time with the 7-day cutoff
HasWeekly(c) == c \in {"activity", "sleep", "heart"}

\* A 30-day window, most recent first, with the 7-day window: the rows of the
\* 30-day window that are at most 7 days old, which are its first rows.
DeepWindows(c) ==
  LET months == {<<>>} \cup {<<h>> \o t : h \in LatestRows(c),
                                          t \in SeqsUpTo(OlderRows(c), MaxRows - 1)}
  IN UNION {{[month |-> m, week |-> SubSeq(m, 1, k)] :
               k \in (IF HasWeekly(c) THEN 0..Len(m) ELSE {Len(m)})} : m \in months}

\* No snapshot, or one snapshot of the last 7 days
ShallowWindows(c) ==
  {[month |-> <<>>, week |-> <<>>]}
  \cup {[month |-> <<r>>, week |-> <<r>>] : r \in TypicalRows(c)}

WindowsOf(focus, c) == IF focus = c THEN DeepWindows(c) ELSE ShallowWindows(c)

\* The argument object of the calculators (the 8 query results of the handler)
MkData(a, h, s, b, v) ==
  [activity |-> a.month, heart |-> h.month, sleep |-> s.month, body |-> b.month,
   vitals |-> v.month, weeklyActivity |-> a.week, weeklySleep |-> s.week,
   weeklyHeart |-> h.week]

\* Inputs with one category in focus (a long window over all its row values) and
\* the other categories empty or holding one snapshot
DataSets(focus) ==
  {MkData(a, h, s, b, v) :
     a \in WindowsOf(focus, "activity"), h \in WindowsOf(focus, "heart"),
     s \in WindowsOf(focus, "sleep"), b \in WindowsOf(focus, "body"),
     v \in WindowsOf(focus, "vitals")}

\* The week of steps 12000, 11000, 10500, 9000, 8500, 8000 (most recent first),
\* the other categories without snapshots
ScenarioSteps == <<12000, 11000, 10500, 9000, 8500, 8000>>

ScenarioData ==
  LET rows == [i \in 1..Len(ScenarioSteps) |-> ActivityRow(ScenarioSteps[i], 400, 70, 45)]
      none == [month |-> <<>>, week |-> <<>>]
  IN {MkData([month |-> rows, week |-> rows], none, none, none, none)}

NoResult == [threw |-> FALSE, keys |-> {}]

EmptyData ==
  [activity |-> <<>>, heart |-> <<>>, sleep |-> <<>>, body |-> <<>>, vitals |-> <<>>,
   weeklyActivity |-> <<>>, weeklySleep |-> <<>>, weeklyHeart |-> <<>>]

EmptyStore ==
  [activity |-> <<>>, heart |-> <<>>, sleep |-> <<>>, body |-> <<>>, vitals |-> <<>>]

\* No row in the tables outside the insights
EmptyDb ==
  [device_data |-> <<>>, health_data |-> <<>>, health_history_data |-> <<>>,
   users |-> <<>>]

\* No ingestion request
NoPosts == <<>>

Init ==
  /\ \/ \E focus \in Categories : data \in DataSets(focus)
     \/ data \in ScenarioData
  /\ pool = 0
  /\ db = EmptyDb
  /\ posts = NoPosts
  /\ phase = "input"
  /\ result = NoResult
  /\ store = EmptyStore
  /\ variant = "none"
  /\ responses = <<>>
  /\ issued = <<>>

ApplyComprehensive ==
  /\ phase = "input"
  /\ phase' = "baseline"
  /\ result' = calculateComprehensiveInsights(data)
  /\ UNCHANGED <<data, store, variant, responses, issued, pool, db, posts>>

ApplyEnhanced ==
  /\ phase = "input"
  /\ phase' = "enhanced"
  /\ result' = calculateEnhancedInsights(data)
  /\ UNCHANGED <<data, store, variant, responses, issued, pool, db, posts>>

Next == ApplyComprehensive \/ ApplyEnhanced

Spec == Init /\ [][Next]_vars

----------------------------------------------------------------------------
(* GET /insights/:userId *)

\* The eight queries of the handler in the order it awaits them: the name the
\* result is passed under, the table read and the cutoff in days
QueryPlan ==
  <<[name |-> "activity", table |-> "activity", days |-> 30],
    [name |-> "heart", table |-> "heart", days |-> 30],
    [name |-> "sleep", table |-> "sleep", days |-> 30],
    [name |-> "body", table |-> "body", days |-> 30],
    [name |-> "vitals", table |-> "vitals", days |-> 30],
    [name |-> "weeklyActivity", table |-> "activity", days |-> 7],
    [name |-> "weeklySleep", table |-> "sleep", days |-> 7],
    [name |-> "weeklyHeart", table |-> "heart", days |-> 7]>>

\* SELECT * FROM <table> WHERE user_id=? AND created_at >= ? ORDER BY created_at DESC
RECURSIVE Query(_, _)
Query(table, days) ==
  IF Len(table) = 0 THEN <<>>
  ELSE IF Head(table).age <= days THEN <<Head(table).row>> \o Query(Tail(table), days)
       ELSE Query(Tail(table), days)

ErrorMessages == {"connect ECONNREFUSED", "connect ETIMEDOUT"}

Ages == {3, 20, 45}

\* Tables of at most n rows, newest first
TablesUpTo(c, n) ==
  {t \in SeqsUpTo([age : Ages, row : TypicalRows(c)], n) :
     \A i \in 1..(Len(t) - 1) : t[i].age <= t[i + 1].age}

\* The stores a request is followed on: one table in focus, the others empty or
\* holding one row of the last week
TablesOf(focus, c) ==
  IF focus = c THEN TablesUpTo(c, MaxStoreRows)
  ELSE {<<>>} \cup {<<[age |-> 3, row |-> r]>> : r \in TypicalRows(c)}

Stores(focus) ==
  {[activity |-> a, heart |-> h, sleep |-> s, body |-> b, vitals |-> v] :
     a \in TablesOf(focus, "activity"), h \in TablesOf(focus, "heart"),
     s \in TablesOf(focus, "sleep"), b \in TablesOf(focus, "body"),
     v \in TablesOf(focus, "vitals")}

Calculate(v, d) ==
  IF v = "baseline" THEN calculateComprehensiveInsights(d)
  ELSE calculateEnhancedInsights(d)

\* res.json({ success: true, insights })
SuccessResponse(insights) ==
  [status |-> 200, keys |-> {"success", "insights"}, success |-> TRUE,
   error |-> "", insights |-> insights]

\* res.status(500).json({ success: false, error: err.message })
ErrorResponse(msg) ==
  [status |-> 500, keys |-> {"success", "error"}, success |-> FALSE,
   error |-> msg, insights |-> NoResult]

\* INSERT INTO device_data (..., endpoint, data, ...): the row of one POST
RawRow(ep, payload) == [endpoint |-> ep, data |-> payload]

\* INSERT INTO users (full_name, email, password_hash)
UserRow(email) == [email |-> email]

\* The other tables before a request: empty, or with a raw row and a user
Dbs ==
  {EmptyDb,
   [EmptyDb EXCEPT !.device_data = <<RawRow("activity", "full")>>,
                   !.users = <<UserRow("a@example.com")>>]}

\* A statement that deletes the rows it has read
AfterSelectPruning(st, table) == [st EXCEPT ![table] = <<>>]

\* The tables after a SELECT on one of them
AfterSelect(st, table) == st

InitRequest ==
  /\ \E focus \in Categories : store \in Stores(focus)
  /\ pool = 0
  /\ db \in Dbs
  /\ posts = NoPosts
  /\ variant \in {"baseline", "enhanced"}
  /\ data = EmptyData
  /\ phase = "fetching"
  /\ result = NoResult
  /\ responses = <<>>
  /\ issued = <<>>

\* One `await pool.execute(...)` that resolves.  After the last one the handler
\* runs to its end without another await: it computes the insights and responds.
InsightsQueryResolves ==
  /\ phase = "fetching"
  /\ LET q == QueryPlan[Len(issued) + 1]
         fetched == [data EXCEPT ![q.name] = Query(store[q.table], q.days)]
         insights == Calculate(variant, fetched)
     IN /\ issued' = Append(issued, q.name)
        /\ data' = fetched
        /\ IF Len(issued) + 1 < Len(QueryPlan)
           THEN /\ phase' = "fetching"
                /\ UNCHANGED <<result, responses>>
           ELSE IF insights.threw
                THEN /\ phase' = "failed"
                     /\ responses' = Append(responses, ErrorResponse("TypeError"))
                     /\ UNCHANGED result
                ELSE /\ phase' = variant
                     /\ result' = insights
                     /\ responses' = Append(responses, SuccessResponse(insights))
        /\ store' = AfterSelect(store, q.table)
  /\ UNCHANGED <<variant, pool, db, posts>>

\* A failure answered without leaving the handler: the request goes on fetching
InsightsQueryRejectsAndContinues ==
  /\ phase = "fetching"
  /\ Len(issued) + 1 < Len(QueryPlan)
  /\ \E msg \in ErrorMessages :
       responses' = Append(responses, ErrorResponse(msg))
  /\ issued' = Append(issued, QueryPlan[Len(issued) + 1].name)
  /\ UNCHANGED <<phase, data, result, store, variant, pool, db, posts>>

\* One `await pool.execute(...)` that rejects: control passes to the catch block,
\* which sends the error response; the handler ends.
InsightsQueryRejects ==
  /\ phase = "fetching"
  /\ \E msg \in ErrorMessages :
       responses' = Append(responses, ErrorResponse(msg))
  /\ issued' = Append(issued, QueryPlan[Len(issued) + 1].name)
  /\ phase' = "failed"
  /\ UNCHANGED <<data, result, store, variant, pool, db, posts>>

\* One `await pool.execute(...)` that never settles: the pool has checked a
\* connection out for the query and the handler stays at the await.  No timer is
\* armed anywhere in the handler, so nothing of the request runs afterwards.
InsightsQueryHangs ==
  /\ phase = "fetching"
  /\ pool < connectionLimit
  /\ pool' = pool + 1
  /\ issued' = Append(issued, QueryPlan[Len(issued) + 1].name)
  /\ phase' = "waiting"
  /\ UNCHANGED <<data, result, store, variant, responses, db, posts>>

NextRequest == InsightsQueryResolves \/ InsightsQueryRejects \/ InsightsQueryHangs

SpecRequest == InitRequest /\ [][NextRequest]_vars

\* The event loop runs every continuation that is ready
SpecRequestFair == SpecRequest /\ WF_vars(NextRequest)

----------------------------------------------------------------------------
(* POST /<endpoint>: ingestion *)

\* const endpoints = [...]
endpoints ==
  <<"activity", "heart", "sleep", "body", "vitals", "health", "health_history">>

Endpoints == {endpoints[i] : i \in 1..Len(endpoints)}

\* Requests that may run at the same time: one more than the pool has connections
NumRequests == connectionLimit + 1

Requests == 1..NumRequests

\* req.body.data || req.body: a payload with every field of its endpoint
\* ("full") or {} ("empty").  The empty payload is drawn for one category
\* endpoint, the destructuring defaults being the same code in every save
\* function; the fields of the health endpoints are not followed.
Payloads(ep) ==
  IF ep = "activity" THEN {"full", "empty"}
  ELSE IF ep \in Categories THEN {"full"} ELSE {"empty"}

\* The fields a full payload carries, by endpoint
Payload(ep, kind) ==
  IF kind = "empty" THEN EmptyMap
  ELSE CASE ep = "activity" ->
              [steps |-> 9500, calories |-> 400, distance |-> 72, exerciseMinutes |-> 45]
         [] ep = "heart" -> [currentHeartRate |-> 72, restingHeartRate |-> 65, hrv |-> 40]
         [] ep = "sleep" -> [sleepHours |-> 75, deepSleep |-> 15, remSleep |-> 18]
         [] ep = "body" -> [weight |-> 700, bmi |-> 220, bodyFat |-> 180, vo2Max |-> 42]
         [] ep = "vitals" ->
              [spo2 |-> 97, bloodPressureSystolic |-> 118, bloodPressureDiastolic |-> 76,
               temperature |-> 367]
         [] OTHER -> EmptyMap

\* The handler of the last server of index.js takes a connection of its own
HandlerTakesConnection(v) == v = "handlerConn"

\* const { field = <default> } = data: 0 in part_001 and the first server of
\* index.js, null in the last server
Destructure(v, payload, field) ==
  IF field \in DOMAIN payload THEN payload[field]
  ELSE IF v = "handlerConn" THEN Null ELSE 0

\* A column the INSERT of the last server does not name stays NULL
Column(v, payload, field) ==
  IF v = "handlerConn" THEN Null ELSE Destructure(v, payload, field)

saveActivityData(v, payload) ==
  ActivityRow(Destructure(v, payload, "steps"), Destructure(v, payload, "calories"),
              Destructure(v, payload, "distance"), Column(v, payload, "exerciseMinutes"))

saveHeartData(v, payload) ==
  HeartRow(Destructure(v, payload, "currentHeartRate"),
           Destructure(v, payload, "restingHeartRate"), Destructure(v, payload, "hrv"))

saveSleepData(v, payload) ==
  SleepRow(Column(v, payload, "sleepHours"), Destructure(v, payload, "deepSleep"),
           Destructure(v, payload, "remSleep"))

saveBodyData(v, payload) ==
  BodyRow(Destructure(v, payload, "weight"), Destructure(v, payload, "bmi"),
          Destructure(v, payload, "bodyFat"), Column(v, payload, "vo2Max"))

saveVitalsData(v, payload) ==
  VitalsRow(Destructure(v, payload, "spo2"),
            Destructure(v, payload, "bloodPressureSystolic"),
            Destructure(v, payload, "bloodPressureDiastolic"),
            Destructure(v, payload, "temperature"))

\* The row the endpoint's save function inserts into its category table
TypedRow(v, ep, payload) ==
  CASE ep = "activity" -> saveActivityData(v, payload)
    [] ep = "heart" -> saveHeartData(v, payload)
    [] ep = "sleep" -> saveSleepData(v, payload)
    [] ep = "body" -> saveBodyData(v, payload)
    [] ep = "vitals" -> saveVitalsData(v, payload)

\* The table saveHealthData / saveHealthHistoryData inserts into
HealthTable(ep) == IF ep = "health" THEN "health_data" ELSE "health_history_data"

\* res.json({ success: true, endpoint: ep })
PostSuccess(ep) == [status |-> 200, success |-> TRUE, endpoint |-> ep, error |-> ""]

\* res.status(500).json({ success: false, error: err.message })
PostError(msg) == [status |-> 500, success |-> FALSE, endpoint |-> "", error |-> msg]

\* err.message of a failed pool.getConnection() and of a failed INSERT
ConnectError == "connect ECONNREFUSED"
InsertError == "ER_NO_REFERENCED_ROW"

\* A request that has not arrived.  holds: who of the request holds a connection
\* ("handler", "save"), in the order acquired.
IdlePost ==
  [ep |-> "", payload |-> "", pc |-> "idle", holds |-> <<>>, acquired |-> 0,
   released |-> 0, inserted |-> <<>>, responses |-> <<>>]

\* The positions at which a request awaits pool.getConnection()
AcquirePcs == {"handler_acquire", "raw_acquire", "typed_acquire"}

\* The positions at which a request awaits conn.execute(INSERT ...)
ExecutePcs == {"raw_execute", "typed_execute"}

\* A save function whose release runs only after a successful insert
SaveReleasesOnSuccessOnly(outcome) == IF outcome = "resolved" THEN 1 ELSE 0

\* try { await conn.execute(...) } finally { conn.release(); }: the number of
\* releases of the save function's connection when the insert has settled
SaveReleases(outcome) == 1

\* The handler's own `finally { conn.release(); }` (last server only)
HandlerReleases(v) == IF HandlerTakesConnection(v) THEN 1 ELSE 0

\* The holders left after n releases, the most recent acquisition first
DropLast(holds, n) == SubSeq(holds, 1, Len(holds) - Min(n, Len(holds)))

\* The handler leaves through its catch or its end: it responds, and its finally
\* block, where there is one, releases the handler's connection.
Respond(v, post, response, saveReleased) ==
  [post EXCEPT !.pc = "done",
               !.responses = Append(@, response),
               !.released = @ + saveReleased + HandlerReleases(v),
               !.holds = DropLast(@, saveReleased + HandlerReleases(v))]

InitPosts(v) ==
  /\ variant = v
  /\ posts = [r \in Requests |-> IdlePost]
  /\ pool = 0
  /\ store = EmptyStore
  /\ db = EmptyDb
  /\ data = EmptyData
  /\ phase = "ingest"
  /\ result = NoResult
  /\ responses = <<>>
  /\ issued = <<>>

\* A POST arrives: the handler runs to its first await.  Requests are numbered
\* in the order they arrive.
PostArrives(r) ==
  /\ posts[r].pc = "idle"
  /\ \A q \in 1..(r - 1) : posts[q].pc # "idle"
  /\ \E ep \in Endpoints : \E kind \in Payloads(ep) :
       posts' = [posts EXCEPT ![r] =
                   [@ EXCEPT !.ep = ep, !.payload = kind,
                             !.pc = IF HandlerTakesConnection(variant)
                                    THEN "handler_acquire" ELSE "raw_acquire"]]
  /\ UNCHANGED <<data, phase, result, store, variant, responses, issued, pool, db>>

\* `await pool.getConnection()` resolves: only while the pool has a connection
\* left (waitForConnections: true, queueLimit: 0: the call waits otherwise)
GetConnectionResolves(r) ==
  /\ posts[r].pc \in AcquirePcs
  /\ pool < connectionLimit
  /\ pool' = pool + 1
  /\ posts' = [posts EXCEPT ![r] =
                 [@ EXCEPT !.acquired = @ + 1,
                           !.holds = Append(@, IF posts[r].pc = "handler_acquire"
                                               THEN "handler" ELSE "save"),
                           !.pc = CASE posts[r].pc = "handler_acquire" -> "raw_acquire"
                                    [] posts[r].pc = "raw_acquire" -> "raw_execute"
                                    [] posts[r].pc = "typed_acquire" -> "typed_execute"]]
  /\ UNCHANGED <<data, phase, result, store, variant, responses, issued, db>>

\* `await pool.getConnection()` rejects (the pool could not open a connection).
\* In a save function the error reaches the handler's catch; at the handler's own
\* call, which is outside its try, nothing catches it and no response is sent.
GetConnectionRejects(r) ==
  /\ posts[r].pc \in AcquirePcs
  /\ pool < connectionLimit
  /\ posts' = [posts EXCEPT ![r] =
                 IF posts[r].pc = "handler_acquire"
                 THEN [@ EXCEPT !.pc = "unhandled"]
                 ELSE Respond(variant, @, PostError(ConnectError), 0)]
  /\ pool' = pool - (IF posts[r].pc = "handler_acquire" THEN 0 ELSE HandlerReleases(variant))
  /\ UNCHANGED <<data, phase, result, store, variant, responses, issued, db>>

\* `await conn.execute(INSERT ...)` resolves: the row is in its table, the save
\* function releases its connection and returns; after saveRawData the handler
\* calls the endpoint's save function, after that it responds.
ExecuteResolves(r) ==
  /\ posts[r].pc \in ExecutePcs
  /\ LET post == posts[r]
         raw == post.pc = "raw_execute"
         n == SaveReleases("resolved")
         payload == Payload(post.ep, post.payload)
     IN /\ IF raw
           THEN /\ db' = [db EXCEPT !.device_data =
                            Append(@, RawRow(post.ep, post.payload))]
                /\ UNCHANGED store
           ELSE IF post.ep \in Categories
                THEN /\ store' = [store EXCEPT ![post.ep] =
                                    <<[age |-> 0,
                                       row |-> TypedRow(variant, post.ep, payload)]>> \o @]
                     /\ UNCHANGED db
                ELSE /\ db' = [db EXCEPT ![HealthTable(post.ep)] =
                                 Append(@, RawRow(post.ep, post.payload))]
                     /\ UNCHANGED store
        /\ IF raw
           THEN /\ posts' = [posts EXCEPT ![r] =
                               [@ EXCEPT !.pc = "typed_acquire",
                                         !.inserted = Append(@, "raw"),
                                         !.released = @ + n,
                                         !.holds = DropLast(@, n)]]
                /\ pool' = pool - n
           ELSE /\ posts' = [posts EXCEPT ![r] =
                               Respond(variant,
                                       [@ EXCEPT !.inserted = Append(@, "typed")],
                                       PostSuccess(post.ep), n)]
                /\ pool' = pool - n - HandlerReleases(variant)
  /\ UNCHANGED <<data, phase, result, variant, responses, issued>>

\* `await conn.execute(INSERT ...)` rejects: no row; the save function's finally
\* releases its connection, the error reaches the handler's catch.
ExecuteRejects(r) ==
  /\ posts[r].pc \in ExecutePcs
  /\ LET n == SaveReleases("rejected")
     IN /\ posts' = [posts EXCEPT ![r] = Respond(variant, @, PostError(InsertError), n)]
        /\ pool' = pool - n - HandlerReleases(variant)
  /\ UNCHANGED <<data, phase, result, store, variant, responses, issued, db>>

NextPosts ==
  \E r \in Requests :
    \/ PostArrives(r)
    \/ GetConnectionResolves(r)
    \/ GetConnectionRejects(r)
    \/ ExecuteResolves(r)
    \/ ExecuteRejects(r)

\* The servers whose handler only calls the save functions
InitSave == \E v \in {"baseline", "enhanced"} : InitPosts(v)

SpecSave == InitSave /\ [][NextPosts]_vars

\* The server whose handler holds a connection while it calls the save functions
InitIngest == InitPosts("handlerConn")

SpecIngest == InitIngest /\ [][NextPosts]_vars

----------------------------------------------------------------------------
(* GET /insights/:userId while POST /<endpoint> requests of the same user run *)

\* Ingestion requests followed next to one insights request
NumInterleaved == 1

\* The category tables before the requests: empty, or one snapshot of the last
\* week in the activity table
InterleavedStores ==
  {EmptyStore}
  \cup {[EmptyStore EXCEPT !.activity = <<[age |-> 3, row |-> r]>>] : r \in ActivityTypical}

\* Both handlers are routes of one server (part_001, first server of index.js)
\* and share its pool; each statement is its own autocommit transaction.
InitInterleaved ==
  /\ variant \in {"baseline", "enhanced"}
  /\ store \in InterleavedStores
  /\ posts = [r \in Requests |-> IdlePost]
  /\ pool = 0
  /\ db = EmptyDb
  /\ data = EmptyData
  /\ phase = "fetching"
  /\ result = NoResult
  /\ responses = <<>>
  /\ issued = <<>>

\* The event loop runs whichever continuation is ready: the next await of the
\* insights handler or the next await of an ingestion handler
NextInterleaved ==
  \/ NextRequest
  \/ \E r \in 1..NumInterleaved :
       \/ PostArrives(r)
       \/ GetConnectionResolves(r)
       \/ GetConnectionRejects(r)
       \/ ExecuteResolves(r)
       \/ ExecuteRejects(r)

SpecInterleaved == InitInterleaved /\ [][NextInterleaved]_vars

----------------------------------------------------------------------------
(* POST /register *)

\* Registration requests that run at the same time
NumRegistrations == 2

Registrations == 1..NumRegistrations

\* req.body.email of the requests; "" stands for a body with a missing field
Emails == {"a@example.com", "b@example.com"}

\* res.json({ success: false, message: 'Missing fields' })
\* res.json({ success: false, message: 'Email already registered', ... })
\* res.json({ success: true, message: "Registered successfully", userId, handle })
\* res.status(500).json({ success: false, message: 'Register failed' })
RegisterResponse(status, success, message) ==
  [status |-> status, success |-> success, message |-> message]

\* A registration that has not arrived
IdleRegistration == [email |-> "", pc |-> "idle", responses |-> <<>>]

\* SELECT id FROM users WHERE email = ?
RECURSIVE SelectUsers(_, _)
SelectUsers(users, email) ==
  IF Len(users) = 0 THEN <<>>
  ELSE IF Head(users).email = email THEN <<Head(users)>> \o SelectUsers(Tail(users), email)
       ELSE SelectUsers(Tail(users), email)

\* if (existing.length > 0) return ...: the handler goes on when this is false
EmailFree(existing, users) == Len(existing) = 0

RegistrationEnds(r, response) ==
  posts' = [posts EXCEPT ![r] = [@ EXCEPT !.pc = "done",
                                          !.responses = Append(@, response)]]

RegistrationMoves(r, pc) == posts' = [posts EXCEPT ![r] = [@ EXCEPT !.pc = pc]]

InitRegister ==
  /\ posts = [r \in Registrations |-> IdleRegistration]
  /\ db \in {EmptyDb, [EmptyDb EXCEPT !.users = <<UserRow("b@example.com")>>]}
  /\ variant \in {"baseline", "enhanced"}
  /\ pool = 0
  /\ store = EmptyStore
  /\ data = EmptyData
  /\ phase = "register"
  /\ result = NoResult
  /\ responses = <<>>
  /\ issued = <<>>

\* A request arrives: with a missing field the handler answers at once,
\* otherwise it runs to `await pool.execute('SELECT ...')`.
RegisterArrives(r) ==
  /\ posts[r].pc = "idle"
  /\ \A q \in 1..(r - 1) : posts[q].pc # "idle"
  /\ \E email \in Emails \cup {""} :
       posts' = [posts EXCEPT ![r] =
                   IF email = ""
                   THEN [@ EXCEPT !.pc = "done",
                                  !.responses = Append(@, RegisterResponse(200, FALSE,
                                                                           "Missing fields"))]
                   ELSE [@ EXCEPT !.email = email, !.pc = "select"]]
  /\ UNCHANGED <<data, phase, result, store, variant, responses, issued, pool, db>>

\* The SELECT resolves: with a row for the email the handler answers, without
\* one it runs to `await bcrypt.hash(password, 10)`.
RegisterSelectResolves(r) ==
  /\ posts[r].pc = "select"
  /\ LET existing == SelectUsers(db.users, posts[r].email)
     IN IF EmailFree(existing, db.users)
        THEN RegistrationMoves(r, "hash")
        ELSE RegistrationEnds(r, RegisterResponse(200, FALSE, "Email already registered"))
  /\ UNCHANGED <<data, phase, result, store, variant, responses, issued, pool, db>>

\* The hash is ready: the handler runs to `await pool.execute('INSERT ...')`.
RegisterHashResolves(r) ==
  /\ posts[r].pc = "hash"
  /\ RegistrationMoves(r, "insert")
  /\ UNCHANGED <<data, phase, result, store, variant, responses, issued, pool, db>>

\* The INSERT resolves: the row is in the table and the handler answers.
RegisterInsertResolves(r) ==
  /\ posts[r].pc = "insert"
  /\ db' = [db EXCEPT !.users = Append(@, UserRow(posts[r].email))]
  /\ RegistrationEnds(r, RegisterResponse(200, TRUE, "Registered successfully"))
  /\ UNCHANGED <<data, phase, result, store, variant, responses, issued, pool>>

\* The SELECT or the INSERT rejects: the catch block answers with status 500.
RegisterQueryRejects(r) ==
  /\ posts[r].pc \in {"select", "insert"}
  /\ RegistrationEnds(r, RegisterResponse(500, FALSE, "Register failed"))
  /\ UNCHANGED <<data, phase, result, store, variant, responses, issued, pool, db>>

NextRegister ==
  \E r \in Registrations :
    \/ RegisterArrives(r)
    \/ RegisterSelectResolves(r)
    \/ RegisterHashResolves(r)
    \/ RegisterInsertResolves(r)
    \/ RegisterQueryRejects(r)

SpecRegister == InitRegister /\ [][NextRegister]_vars

----------------------------------------------------------------------------
(* Properties of the insights computation *)

Computed == phase \in {"baseline", "enhanced"}

\* The category a key of currentMetrics, weeklyAverages or trends belongs to
KeyCategory(k) ==
  CASE k \in {"steps", "calories", "distance", "exerciseMinutes"} -> "activity"
    [] k \in {"currentHeartRate", "restingHeartRate", "hrv", "heartRate"} -> "heart"
    [] k \in {"sleepHours", "deepSleep", "remSleep", "sleep"} -> "sleep"
    [] k \in {"weightKg", "bmi", "bodyFat", "vo2Max", "weight"} -> "body"
    [] k \in {"oxygenSaturation", "bloodPressureSystolic", "bloodPressureDiastolic",
              "temperature"} -> "vitals"

\* The row field a currentMetrics key is read from
KeyField(k) ==
  CASE k = "steps" -> "steps" [] k = "calories" -> "calories"
    [] k = "distance" -> "distance" [] k = "exerciseMinutes" -> "exercise_minutes"
    [] k = "currentHeartRate" -> "current_heart_rate"
    [] k = "restingHeartRate" -> "resting_heart_rate" [] k = "hrv" -> "hrv"
    [] k = "sleepHours" -> "sleep_hours" [] k = "deepSleep" -> "deep_sleep"
    [] k = "remSleep" -> "rem_sleep" [] k = "weightKg" -> "weight"
    [] k = "bmi" -> "bmi" [] k = "bodyFat" -> "body_fat" [] k = "vo2Max" -> "vo2_max"
    [] k = "oxygenSaturation" -> "spo2" [] k = "bloodPressureSystolic" -> "bp_systolic"
    [] k = "bloodPressureDiastolic" -> "bp_diastolic"
    [] k = "temperature" -> "temperature"

\* Field of the most recent snapshot of a fetched window, null or 0 read as 0
LatestValue(c, field) ==
  IF Len(data[c]) = 0 THEN 0
  ELSE IF data[c][1][field] = Null THEN 0 ELSE data[c][1][field]

AllWindowsEmpty == \A c \in Categories : Len(data[c]) = 0

\* C1: for every category whose fetched window is empty, the result has no
\* currentMetrics, weeklyAverages or trends key of that category and no
\* recommendation or alert of that category, and computing it raises no error.
C1_EmptyWindowContributesNothing ==
  Computed =>
    /\ ~result.threw
    /\ \A c \in Categories :
         Len(data[c]) = 0 =>
           /\ \A k \in DOMAIN result.currentMetrics : KeyCategory(k) # c
           /\ \A k \in DOMAIN result.weeklyAverages : KeyCategory(k) # c
           /\ \A k \in DOMAIN result.trends : KeyCategory(k) # c
           /\ \A i \in 1..Len(result.recommendations) :
                result.recommendations[i].category # c
           /\ \A i \in 1..Len(result.alerts) : result.alerts[i].category # c

C1_Witness ==
  /\ Computed
  /\ Len(data.heart) = 0
  /\ Len(data.vitals) = 0
  /\ Len(data.activity) > 0
  /\ Len(result.recommendations) > 0
  /\ DOMAIN result.currentMetrics # {}

\* C2: the healthScore of every result, baseline or enhanced, is an integer
\* between 0 and 100: never NaN, never out of range.
C2_HealthScoreIntegerInRange ==
  Computed =>
    /\ result.healthScore.t = "fin"
    /\ result.healthScore.v \in 0..100

\* Names under which a result could say that it was computed from no data
NoDataIndicators == {"noData", "hasData", "dataAvailable", "dataAvailability"}

\* C3: with every window empty the healthScore is 0 and the result carries an
\* explicit no-data indicator.
C3_NoDataIsFlagged ==
  (Computed /\ AllWindowsEmpty) =>
    /\ result.healthScore = Fin(0)
    /\ result.keys \cap NoDataIndicators # {}

\* The sub-scores of C4, in hundredths of a point, of the categories whose latest
\* value is above 0
C4_SubScores ==
  LET steps == LatestValue("activity", "steps")
      rhr == LatestValue("heart", "resting_heart_rate")
      hours == LatestValue("sleep", "sleep_hours")
      spo2 == LatestValue("vitals", "spo2")
  IN (IF steps > 0 THEN <<IF steps >= 10000 THEN 10000 ELSE steps>> ELSE <<>>)
     \o (IF rhr > 0
         THEN <<CASE rhr \in 50..70 -> 10000 [] rhr \in 71..90 -> 7500
                  [] rhr \in 40..49 -> 8500 [] OTHER -> 5000>>
         ELSE <<>>)
     \o (IF hours > 0
         THEN <<CASE hours \in 70..90 -> 10000 [] hours \in 60..69 -> 8000
                  [] hours \in 91..100 -> 8500 [] OTHER -> 5000>>
         ELSE <<>>)
     \o (IF spo2 > 0
         THEN <<IF spo2 >= 95 THEN 10000 ELSE IF spo2 >= 90 THEN 7500 ELSE 5000>>
         ELSE <<>>)

C4_Example ==
  /\ LatestValue("activity", "steps") = 9500
  /\ LatestValue("heart", "resting_heart_rate") = 65
  /\ LatestValue("sleep", "sleep_hours") = 75
  /\ Len(data.vitals) = 0

\* C4: the baseline healthScore is the plain mean of the sub-scores of the present
\* categories (latest value above 0), rounded to the nearest integer; steps 9500,
\* resting heart rate 65, 7.5 hours of sleep and no vitals give 98.
C4_BaselineScoreIsRoundedMean ==
  phase = "baseline" =>
    LET subs == C4_SubScores
        n == Len(subs)
    IN /\ n > 0 => result.healthScore = Fin((2 * Sum(subs) + 100 * n) \div (200 * n))
       /\ C4_Example => result.healthScore = Fin(98)

C4_Witness ==
  /\ phase = "baseline"
  /\ C4_Example
  /\ result.healthScore = Fin(98)

\* The weighted components of C5 other than consistency: [score, weight]
C5_Components ==
  LET steps == LatestValue("activity", "steps")
      rhr == LatestValue("heart", "resting_heart_rate")
      hours == LatestValue("sleep", "sleep_hours")
  IN (IF steps > 0 THEN <<Component(StepsScore(steps), 30)>> ELSE <<>>)
     \o (IF hours > 0 THEN <<Component(SleepScore(hours), 30)>> ELSE <<>>)
     \o (IF rhr > 0 THEN <<Component(HeartScore(rhr), 25)>> ELSE <<>>)

\* C5: in the enhanced scorer a component without data is in neither the sum nor
\* the divisor; with no activity data the consistency weight is not in the divisor,
\* so resting heart rate 65 alone gives 100.
C5_EnhancedDivisorOverPresent ==
  (phase = "enhanced" /\ Len(data.activity) = 0) =>
    LET cs == C5_Components
    IN /\ Len(cs) > 0 =>
            result.healthScore = MathRoundDiv(TotalScore(cs), 100 * TotalWeight(cs))
       /\ (Len(data.sleep) = 0 /\ LatestValue("heart", "resting_heart_rate") = 65)
            => result.healthScore = Fin(100)

\* C6: every currentMetrics field of a category with a non-empty window is the
\* field (null read as 0) of the most recent snapshot of that window.
C6_CurrentMetricsFromLatest ==
  Computed =>
    \A k \in DOMAIN result.currentMetrics :
      result.currentMetrics[k] = LatestValue(KeyCategory(k), KeyField(k))

\* The value sequence a trend is computed from, as fetched
TrendValues(k) ==
  CASE k = "steps" -> MapField(data.weeklyActivity, "steps")
    [] k = "heartRate" -> FilterPositive(MapField(data.weeklyHeart, "resting_heart_rate"))
    [] k = "sleep" -> FilterPositive(MapField(data.weeklySleep, "sleep_hours"))
    [] k = "weight" -> FilterPositive(MapField(data.body, "weight"))

TrendSliceLen(k) == IF k = "weight" THEN 5 ELSE 3

\* C7: a trend is present only when the recent and the older slice are non-empty
\* and the older average is not 0; it is then a finite number.
C7_TrendOnlyWithNonZeroOlderAverage ==
  Computed =>
    \A k \in DOMAIN result.trends :
      LET n == TrendSliceLen(k)
          older == Slice(TrendValues(k), n, 2 * n)
      IN /\ Len(Slice(TrendValues(k), 0, n)) > 0
         /\ Len(older) > 0
         /\ Sum(older) # 0
         /\ IsFinite(result.trends[k])

\* The numeric values of a result that are kept with their NaN / infinity tag
NumericValues ==
  {result.healthScore}
  \cup {result.weeklyAverages[k] : k \in DOMAIN result.weeklyAverages}
  \cup {result.trends[k] : k \in DOMAIN result.trends}
  \cup {result.weeklySummary[k] : k \in DOMAIN result.weeklySummary \ {"healthScoreTrend"}}
  \cup UNION {{result.detailedAnalysis[a][k] : k \in DOMAIN result.detailedAnalysis[a]} :
                a \in DOMAIN result.detailedAnalysis}

\* C8: no numeric value of the result is NaN or infinite.
C8_AllNumbersFinite ==
  Computed => \A x \in NumericValues : x.t \notin {"NaN", "Infinity", "-Infinity"}

InProcessingOrder(list) ==
  \A i, j \in 1..Len(list) :
    i < j => CategoryOrder(list[i].category) <= CategoryOrder(list[j].category)

\* C9: recommendations and alerts are in the order activity, heart, sleep, body,
\* vitals in both variants.
C9_ListsInCategoryOrder ==
  Computed =>
    /\ InProcessingOrder(result.recommendations)
    /\ InProcessingOrder(result.alerts)

\* C10: a request whose fetch fails sends exactly one response, the error response
\* with status 500 and no insights, computes nothing and issues no later fetch; a
\* request whose eight fetches succeed sends exactly one response, success with the
\* insights.  No response is sent while the request is fetching.
C10_State ==
  /\ phase = "fetching" => (responses = <<>> /\ result = NoResult)
  /\ phase = "failed" =>
       /\ Len(responses) = 1
       /\ responses[1].status = 500
       /\ responses[1].success = FALSE
       /\ responses[1].error \in ErrorMessages
       /\ responses[1].keys = {"success", "error"}
       /\ result = NoResult
  /\ phase \in {"baseline", "enhanced"} =>
       /\ Len(issued) = Len(QueryPlan)
       /\ responses = <<SuccessResponse(result)>>
       /\ result = Calculate(variant, data)

C10_Step ==
  /\ phase = "failed" => (issued' = issued /\ responses' = responses)
  /\ responses # <<>> => (issued' = issued /\ responses' = responses)

C10_OneResponsePerRequest == [](C10_State) /\ [][C10_Step]_vars

C10_Witness ==
  /\ phase = "failed"
  /\ Len(issued) = 3
  /\ store["activity"] # <<>>
  /\ Len(responses) = 1

----------------------------------------------------------------------------
(* Rule-based recommendations and alerts *)

\* Positions of the recommendations of a category with a priority
RecsOf(c, p) ==
  {i \in 1..Len(result.recommendations) :
     result.recommendations[i].category = c /\ result.recommendations[i].priority = p}

\* Positions of the recommendations with a title
RecsTitled(t) ==
  {i \in 1..Len(result.recommendations) : result.recommendations[i].title = t}

\* Positions of the alerts of a category with a type
AlertsOf(c, ty) ==
  {i \in 1..Len(result.alerts) :
     result.alerts[i].category = c /\ result.alerts[i].type = ty}

\* Positions of all alerts of a category
AlertsIn(c) == {i \in 1..Len(result.alerts) : result.alerts[i].category = c}

C15_HeartAlertOrPositive ==
  (Computed /\ Len(data.heart) > 0) =>
    LET rhr == LatestValue("heart", "resting_heart_rate")
    IN /\ rhr > 100 => AlertsOf("heart", "warning") # {}
       /\ (rhr >= 50 /\ rhr <= 70) =>
            (RecsOf("heart", "positive") # {} /\ AlertsIn("heart") = {})
       /\ (rhr > 70 /\ rhr <= 100) =>
            (RecsOf("heart", "positive") = {} /\ AlertsIn("heart") = {})

\* C16: in both variants, with a non-empty sleep window, a latest sleepHours below
\* 6 gives a sleep warning alert and a high-priority sleep recommendation; 7..9
\* gives a positive sleep recommendation and no sleep alert; 6 up to 7 and above 9
\* give neither.
C16_SleepAlertAndSuggestion ==
  (Computed /\ Len(data.sleep) > 0) =>
    LET hours == LatestValue("sleep", "sleep_hours")
    IN /\ hours < 60 =>
            (AlertsOf("sleep", "warning") # {} /\ RecsOf("sleep", "high") # {})
       /\ (hours >= 70 /\ hours <= 90) =>
            (RecsOf("sleep", "positive") # {} /\ AlertsIn("sleep") = {})
       /\ ((hours >= 60 /\ hours < 70) \/ hours > 90) =>
            /\ AlertsIn("sleep") = {}
            /\ RecsOf("sleep", "positive") = {}
            /\ RecsOf("sleep", "high") = {}

C18_Steps ==
  [i \in 1..Len(data.weeklyActivity) |->
     IF data.weeklyActivity[i].steps = Null THEN 0 ELSE data.weeklyActivity[i].steps]

\* ((mean of s0..s2) - (mean of s3..s5)) / (mean of s3..s5) * 100 to one decimal,
\* in tenths, the division being the program's: x / 0 is infinite, 0 / 0 is NaN
C18_Trend ==
  LET s == C18_Steps
      recent == SubSeq(s, 1, 3)
      older == SubSeq(s, 4, Min(6, Len(s)))
      num == Sum(recent) * Len(older) - Sum(older) * 3
      den == Sum(older) * 3
  IN IF den = 0 THEN (IF Sum(recent) = 0 THEN NaN ELSE PosInf)
     ELSE IF num >= 0 THEN Fin((2000 * num + den) \div (2 * den))
     ELSE Fin(0 - ((2000 * (0 - num) + den) \div (2 * den)))

\* C18: in both variants, for a non-empty 7-day activity window, weeklyAverages.steps
\* is the mean of the steps of all its rows (null as 0) rounded to the nearest
\* integer, and when the window has a fourth row trends.steps is the change of the
\* mean of rows 0..2 against the mean of rows 3..5 in percent to one decimal; the
\* week 12000, 11000, 10500, 9000, 8500, 8000 gives 9833 and 31.4.
C18_WeeklyAverageAndTrend ==
  (Computed /\ Len(data.weeklyActivity) > 0) =>
    LET s == C18_Steps
        n == Len(s)
    IN /\ result.weeklyAverages["steps"] = Fin((2 * Sum(s) + n) \div (2 * n))
       /\ n >= 4 => ("steps" \in DOMAIN result.trends /\ result.trends["steps"] = C18_Trend)
       /\ s = ScenarioSteps =>
            (result.weeklyAverages["steps"] = Fin(9833) /\ result.trends["steps"] = Fin(314))

C18_Witness ==
  /\ Computed
  /\ C18_Steps = ScenarioSteps
  /\ result.weeklyAverages["steps"] = Fin(9833)
  /\ result.trends["steps"] = Fin(314)

\* C19: every result, baseline or enhanced, has a weeklySummary whose totalSteps is
\* the sum of the steps of the 7-day activity rows, whose avgSleepHours is the
\* weekly sleep-hours average (0 without one) and whose workoutsCompleted counts the
\* 7-day activity rows with more than 30 exercise minutes.
C19_WeeklySummaryAttached ==
  Computed =>
    /\ "weeklySummary" \in result.keys
    /\ DOMAIN result.weeklySummary
         = {"totalSteps", "avgSleepHours", "workoutsCompleted", "healthScoreTrend"}
    /\ result.weeklySummary["totalSteps"] = Fin(Sum(C18_Steps))
    /\ result.weeklySummary["avgSleepHours"]
         = (IF "sleepHours" \in DOMAIN result.weeklyAverages
            THEN result.weeklyAverages["sleepHours"] ELSE Fin(0))
    /\ result.weeklySummary["workoutsCompleted"]
         = Fin(Cardinality({i \in 1..Len(data.weeklyActivity) :
                              data.weeklyActivity[i].exercise_minutes > 30}))

----------------------------------------------------------------------------
(* Properties of the insights request *)

\* C13: a request whose window fetch never returns still ends: it eventually has
\* sent the error response, and then it holds no connection of the pool.
C13_TimeoutEndsRequest ==
  (phase = "waiting") ~>
    (/\ Len(responses) = 1
     /\ responses[1].status = 500
     /\ responses[1].success = FALSE
     /\ pool = 0)

\* C20: no step of a GET /insights/:userId request, successful or failed, changes
\* a table: the category tables and device_data, health_data, health_history_data
\* and users hold the same rows after the step as before it.
C20_Step == store' = store /\ db' = db

C20_InsightsLeaveStoreUnchanged == [][C20_Step]_vars

C20_Witness ==
  /\ phase \in {"baseline", "enhanced"}
  /\ Len(issued) = Len(QueryPlan)
  /\ Len(store["sleep"]) = MaxStoreRows
  /\ db.device_data # <<>>
  /\ db.users # <<>>
  /\ Len(responses) = 1

----------------------------------------------------------------------------
(* Properties of the ingestion requests and the pool *)

\* The connections the requests hold together
RECURSIVE HeldUpTo(_)
HeldUpTo(n) == IF n = 0 THEN 0 ELSE Len(posts[n].holds) + HeldUpTo(n - 1)

\* Every connection of the pool is held by a handler that waits for another one
PoolStarved ==
  /\ pool = connectionLimit
  /\ \A r \in Requests :
       posts[r].holds # <<>> =>
         (posts[r].holds = <<"handler">> /\ posts[r].pc \in AcquirePcs)

\* C11: with any number of concurrent ingestion POSTs, the pool is never in the
\* state where all its connections are held by handlers that each wait for a
\* further connection (in that state no request can respond or return its
\* connection any more).
C11_NoPoolStarvation == ~PoolStarved

\* C12: every connection a save function acquires is released exactly once,
\* whether the insert resolves or rejects: the pool never has more than
\* connectionLimit connections checked out, the count is the number the requests
\* hold, a request never has released more than it acquired, a finished request
\* holds nothing and has released as many as it acquired, and with every request
\* finished the pool has no connection checked out.
C12_SaveReleasesItsConnection ==
  /\ pool \in 0..connectionLimit
  /\ pool = HeldUpTo(NumRequests)
  /\ \A r \in Requests :
       /\ posts[r].released <= posts[r].acquired
       /\ Len(posts[r].holds) = posts[r].acquired - posts[r].released
       /\ posts[r].pc \in {"idle", "done"} =>
            (posts[r].holds = <<>> /\ posts[r].released = posts[r].acquired)
  /\ (\A r \in Requests : posts[r].pc \in {"idle", "done"}) => pool = 0

C12_Witness ==
  /\ \A r \in Requests : posts[r].pc = "done"
  /\ \E r \in Requests :
       /\ posts[r].acquired = 2
       /\ posts[r].released = 2
       /\ posts[r].inserted = <<"raw">>
       /\ posts[r].responses # <<>>
       /\ posts[r].responses[1].status = 500
  /\ \E r \in Requests : posts[r].inserted = <<"raw", "typed">>
  /\ pool = 0

----------------------------------------------------------------------------
(* Properties of the cross-cutting calculators *)

\* The result of the enhanced function on an input it did not throw on
EnhancedComputed == phase = "enhanced" /\ ~result.threw

\* The number of leading snapshots of a window with at least 8000 steps
RECURSIVE LeadingQualifying(_)
LeadingQualifying(rows) ==
  IF Len(rows) = 0 THEN 0
  ELSE IF OrZero(Head(rows).steps) >= 8000 THEN 1 + LeadingQualifying(Tail(rows))
       ELSE 0

\* C21: streaks.steps is the number of consecutive snapshots with steps >= 8000
\* counted from the most recent snapshot of the fetched activity window backwards,
\* stopping at the first snapshot below 8000; it is 0 when the most recent
\* snapshot is below 8000.
C21_StreakFromMostRecent ==
  (EnhancedComputed /\ Len(data.activity) > 0) =>
    /\ "steps" \in DOMAIN result.streaks
    /\ result.streaks["steps"] = LeadingQualifying(data.activity)

\* C22: calculateStreaks leaves the sequences it is given unchanged, and the
\* analysis that runs after the calculators reads data.activity most recent
\* first: currentMetrics.steps is the steps of the first fetched snapshot.
C22_CalculatorsLeaveInputUnchanged ==
  (EnhancedComputed /\ Len(data.activity) > 0) =>
    /\ calculateStreaks(data).data = data
    /\ result.currentMetrics["steps"] = OrZero(data.activity[1].steps)

\* The sequences calculateConsistency is called on, by key of detailedAnalysis
ConsistencyInput(a) ==
  IF a = "steps" THEN MapField(data.weeklyActivity, "steps")
  ELSE FilterPositive(MapField(data.weeklySleep, "sleep_hours"))

\* C23: every consistency of the result is 0 for fewer than 2 samples, 100 for a
\* constant sequence of 2 or more samples (the all-zero sequence included), and
\* otherwise a number between 0 and 100; it is never NaN.
C23_ConsistencyDefined ==
  EnhancedComputed =>
    \A a \in {"steps", "sleep"} :
      "consistency" \in DOMAIN result.detailedAnalysis[a] =>
        LET values == ConsistencyInput(a)
            c == result.detailedAnalysis[a]["consistency"]
        IN /\ c.t = "fin"
           /\ c.v \in 0..1000
           /\ Len(values) < 2 => c.v = 0
           /\ (Len(values) >= 2 /\ \A i \in 1..Len(values) : values[i] = values[1])
                => c.v = 1000

\* The sum of max(0, 8 - hours) over the rows of a sleep window, in tenths of an
\* hour, a null or zero sleep_hours counted as 0 hours slept
RECURSIVE DebtOverRows(_)
DebtOverRows(rows) ==
  IF Len(rows) = 0 THEN 0
  ELSE LET hours == OrZero(Head(rows).sleep_hours)
       IN (IF hours < 80 THEN 80 - hours ELSE 0) + DebtOverRows(Tail(rows))

\* C24: detailedAnalysis.sleep.sleepDebt is the sum of max(0, 8 - sleepHours) over
\* every row of the 7-day sleep window, a row with null or zero sleepHours
\* contributing 8.
C24_SleepDebtOverWholeWeek ==
  (EnhancedComputed /\ "sleepDebt" \in DOMAIN result.detailedAnalysis.sleep) =>
    result.detailedAnalysis.sleep["sleepDebt"] = Fin(DebtOverRows(data.weeklySleep))

\* C25: the weekly heart-rate trend is a percentage only when the weekly resting
\* heart rates have a non-empty recent slice and a disjoint non-empty older slice;
\* with 2 or 3 samples it is the insufficient-data answer, not 0.0%.
C25_TrendNeedsDisjointSlices ==
  (EnhancedComputed /\ "weeklyTrend" \in DOMAIN result.detailedAnalysis.heart) =>
    LET weeklyHR == FilterPositive(MapField(data.weeklyHeart, "resting_heart_rate"))
        trend == result.detailedAnalysis.heart["weeklyTrend"]
    IN Len(weeklyHR) <= 3 => trend.t = "Insufficient data"

----------------------------------------------------------------------------
(* Properties of requests that run at the same time *)

\* Every row of a 7-day window is a row of the 30-day window of its category
WeekWithinMonth(weekly, monthly) ==
  \A i \in 1..Len(data[weekly]) : \E j \in 1..Len(data[monthly]) :
    data[monthly][j] = data[weekly][i]

\* C26: in the data one insights request computes from, also with ingestion
\* requests running between its fetches, every row of a 7-day window is a row of
\* the 30-day window of the same category, so the result has no weekly steps
\* total above 0 without the currentMetrics of the activity category.
C26_WeeklyRowsWithinMonthlyWindow ==
  (Computed /\ ~result.threw) =>
    /\ WeekWithinMonth("weeklyActivity", "activity")
    /\ WeekWithinMonth("weeklySleep", "sleep")
    /\ WeekWithinMonth("weeklyHeart", "heart")
    /\ ("totalSteps" \in DOMAIN result.weeklySummary
          /\ result.weeklySummary["totalSteps"].v > 0)
         => "steps" \in DOMAIN result.currentMetrics

\* C27: a finished POST that responded success has inserted the device_data row
\* and then the row of its endpoint's table; one that responded with an error has
\* inserted neither: no finished request leaves the raw row without its typed row.
C27_PostAllOrNothing ==
  \A r \in Requests :
    (posts[r].pc = "done" /\ Len(posts[r].responses) = 1) =>
      /\ posts[r].responses[1].success => posts[r].inserted = <<"raw", "typed">>
      /\ ~posts[r].responses[1].success => posts[r].inserted = <<>>

\* The number of rows of the users table with an email
RowsWithEmail(email) == Len(SelectUsers(db.users, email))

\* The requests that registered an email successfully
Registered(email) ==
  {r \in Registrations :
     /\ posts[r].email = email
     /\ \E i \in 1..Len(posts[r].responses) : posts[r].responses[i].success}

\* C28: whatever the interleaving of concurrent registrations, the users table
\* has at most one row per email and no two requests with the same email both
\* respond success.
C28_OneRowPerEmail ==
  \A email \in Emails :
    /\ RowsWithEmail(email) <= 1
    /\ Cardinality(Registered(email)) <= 1

----------------------------------------------------------------------------
(* Properties of the composite score *)

\* The field of a category that the scorers read
ScoredField(c) ==
  CASE c = "activity" -> "steps" [] c = "heart" -> "resting_heart_rate"
    [] c = "sleep" -> "sleep_hours" [] c = "vitals" -> "spo2"

\* The fetched data with the windows of a category emptied
WithoutCategory(c) ==
  CASE c = "activity" -> [data EXCEPT !.activity = <<>>, !.weeklyActivity = <<>>]
    [] c = "heart" -> [data EXCEPT !.heart = <<>>, !.weeklyHeart = <<>>]
    [] c = "sleep" -> [data EXCEPT !.sleep = <<>>, !.weeklySleep = <<>>]
    [] c = "vitals" -> [data EXCEPT !.vitals = <<>>]

\* A category with snapshots whose latest scored value is 0 or null
LatestIsZero(c) == Len(data[c]) > 0 /\ LatestValue(c, ScoredField(c)) = 0

\* The baseline score with a category whose latest value is 0 or null equals the
\* score computed with that category's window empty
C29_BaselineHalf ==
  (phase = "baseline" /\ ~result.threw) =>
    \A c \in {"activity", "heart", "sleep", "vitals"} :
      LatestIsZero(c) =>
        result.healthScore = calculateComprehensiveInsights(WithoutCategory(c)).healthScore

\* The enhanced score is the one over the categories whose latest value is above
\* 0, with the consistency component as reported
C29_EnhancedHalf ==
  (EnhancedComputed /\ \E c \in {"activity", "heart", "sleep"} : LatestIsZero(c)) =>
    LET cs == C5_Components
        consistency == IF "consistency" \in DOMAIN result.detailedAnalysis.steps
                       THEN result.detailedAnalysis.steps["consistency"] ELSE Fin(0)
    IN consistency.t = "fin" =>
         result.healthScore =
           RoundedScore(TotalScore(cs) + consistency.v * 10 * 15, TotalWeight(cs) + 15)

\* C29: a category whose latest steps, sleep hours, resting heart rate or SpO2 is
\* 0 or null is in neither the weighted sum nor the divisor of the score, in the
\* baseline and in the enhanced scorer; the baseline score then equals the score
\* computed with that category's window empty.
C29_PresentWhenLatestPositive == C29_BaselineHalf /\ C29_EnhancedHalf

----------------------------------------------------------------------------
(* Properties of the ingestion handler's failure paths *)

\* C30: every ingestion request whose handler has ended has received exactly one
\* response and holds no connection, also when a pool.getConnection() failed.
C30_OneResponseAlsoOnConnectFailure ==
  \A r \in Requests :
    posts[r].pc \in {"done", "unhandled"} =>
      /\ Len(posts[r].responses) = 1
      /\ posts[r].holds = <<>>

====
